---- MODULE Spec2Model ----
(***************************************************************************)
(* Model of the AssetTransfer chaincode (src/fabric/assetTransfer.js).     *)
(*                                                                         *)
(* The world state is an ordered key-value map reached through ctx.stub.   *)
(* A JavaScript object is a sequence of fields in insertion order; a JSON  *)
(* text is the sequence of its fields in the order they are written.       *)
(* Every stub call of an operation can throw (StoreFailure): the input     *)
(* `fail` of an operation is the index of the stub call that throws, 0     *)
(* when none does.                                                         *)
(***************************************************************************)
EXTENDS Integers, Sequences, FiniteSets, TLC

VARIABLES world, absentAs, pre, last, deleted, written, encA, encB, encOut,
          calls

vars == <<world, absentAs, pre, last, deleted, written, encA, encB, encOut,
          calls>>

\* The variables of the contract state machine, and those of the encoder
contractVars == <<world, absentAs, pre, last, deleted, written>>
encVars == <<encA, encB, encOut>>

(***************************************************************************)
(* Bounds and input domains                                                *)
(***************************************************************************)
AssetKeys == <<"asset1", "asset2", "asset3", "asset4", "asset5", "asset6">>

\* Keys of the world state: the six InitLedger keys, one key outside them
\* for the single-key operations, and one key no operation is invoked with
Keys == {"a1", "asset1", "asset2", "asset25", "asset3", "asset4", "asset5",
         "asset6"}

\* Keys the single-key operations are invoked with
Ids == {"a1", "asset2"}

\* Fabric hands every argument to the contract as a string
Colors == {"blue"}
Sizes == {"5", "abc"}
Owners == {"Brad"}
NewOwners == {"Brad", "Carol"}
AppraisedValues == {"300"}

\* A store failure is injected in one of the first MaxFailedCall stub calls
\* of an invocation
MaxFailedCall == 2

\* The encoder is applied to records of up to MaxEncFields fields
MaxEncFields == 4

\* The stub call of an invocation of n stub calls that throws (0: none)
Failures(n) == {f \in 0..n : f <= MaxFailedCall}
\* Values UpdateAsset is invoked with
UpdateSizes == {"5"}

(***************************************************************************)
(* JavaScript values                                                       *)
(***************************************************************************)
JsStr(s) == [t |-> "string", s |-> s, n |-> 0]
JsNum(n) == [t |-> "number", s |-> "", n |-> n]
JsNaN == [t |-> "number", s |-> "NaN", n |-> 0]
JsNull == [t |-> "null", s |-> "", n |-> 0]
JsUndefined == [t |-> "undefined", s |-> "", n |-> 0]
JsBool(b) == [t |-> "boolean", s |-> IF b THEN "true" ELSE "false", n |-> 0]

\* ToBoolean of the values the contract tests
Truthy(v) ==
    CASE v.t = "boolean" -> v.s = "true"
      [] v.t = "undefined" -> FALSE
      [] v.t = "null" -> FALSE
      [] v.t = "number" -> v.s # "NaN" /\ v.n # 0
      [] v.t = "string" -> v.s # ""

\* Number(x) of the string arguments the model passes
NumberMutNoCoercion(v) == v

Number(v) ==
    IF v.t = "number" THEN v
    ELSE CASE v.s = "5" -> JsNum(5)
           [] v.s = "300" -> JsNum(300)
           [] v.s = "" -> JsNum(0)
           [] OTHER -> JsNaN

(***************************************************************************)
(* Strings are ordered by their UTF-16 code units (Array.prototype.sort    *)
(* without a comparator, and the key order of the world state)             *)
(***************************************************************************)
CodeUnits(s) ==
    CASE s = "a1" -> <<97, 49>>
      [] s = "asset1" -> <<97, 115, 115, 101, 116, 49>>
      [] s = "asset2" -> <<97, 115, 115, 101, 116, 50>>
      [] s = "asset25" -> <<97, 115, 115, 101, 116, 50, 53>>
      [] s = "asset3" -> <<97, 115, 115, 101, 116, 51>>
      [] s = "asset4" -> <<97, 115, 115, 101, 116, 52>>
      [] s = "asset5" -> <<97, 115, 115, 101, 116, 53>>
      [] s = "asset6" -> <<97, 115, 115, 101, 116, 54>>
      [] s = "AppraisedValue" ->
           <<65, 112, 112, 114, 97, 105, 115, 101, 100, 86, 97, 108, 117, 101>>
      [] s = "Color" -> <<67, 111, 108, 111, 114>>
      [] s = "ID" -> <<73, 68>>
      [] s = "Owner" -> <<79, 119, 110, 101, 114>>
      [] s = "Size" -> <<83, 105, 122, 101>>
      [] s = "docType" -> <<100, 111, 99, 84, 121, 112, 101>>

RECURSIVE SeqLess(_, _)
SeqLess(a, b) ==
    IF b = <<>> THEN FALSE
    ELSE IF a = <<>> THEN TRUE
    ELSE IF Head(a) # Head(b) THEN Head(a) < Head(b)
    ELSE SeqLess(Tail(a), Tail(b))

\* Comparison after folding upper case to lower case
FoldCase(units) ==
    [i \in 1..Len(units) |->
        IF units[i] \in 65..90 THEN units[i] + 32 ELSE units[i]]

StrLessMutIgnoresCase(x, y) == SeqLess(FoldCase(CodeUnits(x)), FoldCase(CodeUnits(y)))

StrLess(x, y) == SeqLess(CodeUnits(x), CodeUnits(y))

(***************************************************************************)
(* Objects and the encoders                                                *)
(***************************************************************************)
Field(k, v) == [k |-> k, v |-> v]

HasField(obj, k) == \E i \in 1..Len(obj) : obj[i].k = k

\* obj.k
GetField(obj, k) ==
    IF HasField(obj, k)
    THEN obj[CHOOSE i \in 1..Len(obj) : obj[i].k = k].v
    ELSE JsUndefined

\* obj.k = v : an existing property keeps its place, a new one is appended
SetField(obj, k, v) ==
    IF HasField(obj, k)
    THEN [i \in 1..Len(obj) |-> IF obj[i].k = k THEN Field(k, v) ELSE obj[i]]
    ELSE Append(obj, Field(k, v))

RECURSIVE InsertSorted(_, _)
InsertSorted(f, sorted) ==
    IF sorted = <<>> THEN <<f>>
    ELSE IF StrLess(f.k, Head(sorted).k) THEN <<f>> \o sorted
    ELSE <<Head(sorted)>> \o InsertSorted(f, Tail(sorted))

RECURSIVE SortFields(_)
SortFields(obj) ==
    IF obj = <<>> THEN <<>>
    ELSE InsertSorted(Head(obj), SortFields(Tail(obj)))

\* sortKeysRecursive(obj): a new object with the keys in ascending order
sortKeysRecursive(obj) == SortFields(obj)

\* Decimal text of the numbers the contract handles, and its inverse
NumText(n) ==
    CASE n = 0 -> "0"
      [] n = 5 -> "5"
      [] n = 10 -> "10"
      [] n = 15 -> "15"
      [] n = 300 -> "300"
      [] n = 400 -> "400"
      [] n = 500 -> "500"
      [] n = 600 -> "600"
      [] n = 700 -> "700"
      [] n = 800 -> "800"

TextNum(txt) ==
    CASE txt = "0" -> 0
      [] txt = "5" -> 5
      [] txt = "10" -> 10
      [] txt = "15" -> 15
      [] txt = "300" -> 300
      [] txt = "400" -> 400
      [] txt = "500" -> 500
      [] txt = "600" -> 600
      [] txt = "700" -> 700
      [] txt = "800" -> 800

\* A JSON text is a sequence of members [k, q, txt]: the member name, whether
\* the value is written between quotes, and the characters of the value.
Member(k, q, txt) == [k |-> k, q |-> q, txt |-> txt]

\* JSON.stringify of one value: a string is quoted, a finite number is
\* written in decimal, NaN is written as null
SerializeValue(k, v) ==
    CASE v.t = "string" -> Member(k, TRUE, v.s)
      [] v.t = "number" /\ v.s = "NaN" -> Member(k, FALSE, "null")
      [] v.t = "number" /\ v.s # "NaN" -> Member(k, FALSE, NumText(v.n))
      [] v.t = "null" -> Member(k, FALSE, "null")
      [] v.t = "boolean" -> Member(k, FALSE, v.s)

\* JSON.stringify(obj): the fields in insertion order, undefined ones left out
JSONstringify(obj) ==
    LET kept == SelectSeq(obj, LAMBDA f : f.v.t # "undefined")
    IN  [i \in 1..Len(kept) |-> SerializeValue(kept[i].k, kept[i].v)]

\* json-stringify-deterministic: JSON.stringify with the keys sorted
stringify(obj) == JSONstringify(SortFields(obj))

ParseValue(m) ==
    IF m.q THEN JsStr(m.txt)
    ELSE CASE m.txt = "null" -> JsNull
           [] m.txt = "true" -> JsBool(TRUE)
           [] m.txt = "false" -> JsBool(FALSE)
           [] OTHER -> JsNum(TextNum(m.txt))

\* A stored text that is no JSON text: a single nameless, unquoted member
\* holding its characters.  JSON.parse throws a SyntaxError on it.
RawText(txt) == <<Member("", FALSE, txt)>>

Decodable(text) == \A i \in 1..Len(text) : text[i].k # ""

\* JSON.stringify of a string: the characters between quotes
QuotedText(text) == <<Member("", TRUE, text[1].txt)>>

\* JSON.parse(text): an object with the fields in the order of the text
JSONparse(text) == [i \in 1..Len(text) |-> Field(text[i].k, ParseValue(text[i]))]

(***************************************************************************)
(* The stub: an ordered key-value store.  An absent key holds no bytes.    *)
(***************************************************************************)
NoBytes == <<>>

Present(w, k) == w[k] # NoBytes

\* getState(key): the bytes of a present key; for an absent key the adapter
\* answers with an empty buffer or with undefined, depending on the host
getState(w, k, absent) ==
    IF Present(w, k) THEN [t |-> "buffer", bytes |-> w[k]]
    ELSE IF absent = "undefined" THEN [t |-> "undefined", bytes |-> NoBytes]
    ELSE [t |-> "buffer", bytes |-> NoBytes]

putState(w, k, bytes) == [w EXCEPT ![k] = bytes]

deleteState(w, k) == [w EXCEPT ![k] = NoBytes]

\* The keys a range scan over the whole namespace yields, in ascending order
RECURSIVE SortKeySet(_)
SortKeySet(S) ==
    IF S = {} THEN <<>>
    ELSE LET m == CHOOSE x \in S : \A y \in S \ {x} : StrLess(x, y)
         IN  <<m>> \o SortKeySet(S \ {m})

getStateByRange(w) == SortKeySet({k \in DOMAIN w : Present(w, k)})

(***************************************************************************)
(* The contract.  Every operation yields an outcome: the world state it    *)
(* leaves, the error it throws ("" when it returns), what it returns, the  *)
(* keys it put and deleted in call order, and the state of the range-scan  *)
(* iterator it obtained ("none" when it obtained none).                    *)
(***************************************************************************)
NoText == <<>>

Outcome(w, err, text, val, list, puts, dels, iter) ==
    [world |-> w, err |-> err, retText |-> text, retVal |-> val,
     retList |-> list, puts |-> puts, dels |-> dels, iter |-> iter]

Throw(w, err, puts) ==
    Outcome(w, err, NoText, JsUndefined, <<>>, puts, <<>>, "none")

\* The six literal assets of InitLedger, fields in the order they are written
InitAsset(id, color, size, owner, value) ==
    <<Field("ID", JsStr(id)), Field("Color", JsStr(color)),
      Field("Size", JsNum(size)), Field("Owner", JsStr(owner)),
      Field("AppraisedValue", JsNum(value))>>

assets ==
    <<InitAsset("asset1", "blue", 5, "Tomoko", 300),
      InitAsset("asset2", "red", 5, "Brad", 400),
      InitAsset("asset3", "green", 10, "Jin Soo", 500),
      InitAsset("asset4", "yellow", 10, "Max", 600),
      InitAsset("asset5", "black", 15, "Adriana", 700),
      InitAsset("asset6", "white", 15, "Michel", 800)>>

\* One pass of the loop body of InitLedger for assets[i]
InitLedgerEncodedMutNoDocType(i) == stringify(sortKeysRecursive(assets[i]))

InitLedgerEncoded(i) ==
    LET asset == SetField(assets[i], "docType", JsStr("asset"))
    IN  stringify(sortKeysRecursive(asset))

\* The world state after the first n iterations of the loop
RECURSIVE InitLedgerPuts(_, _)
InitLedgerPuts(w, n) ==
    IF n = 0 THEN w
    ELSE putState(InitLedgerPuts(w, n - 1),
                  GetField(assets[n], "ID").s, InitLedgerEncoded(n))

\* InitLedger(ctx): stub call i is the putState of assets[i]
InitLedger(w, fail) ==
    LET done == IF fail \in 1..Len(assets) THEN fail - 1 ELSE Len(assets)
        puts == [i \in 1..done |-> GetField(assets[i], "ID").s]
    IN  Outcome(InitLedgerPuts(w, done),
                IF done < Len(assets) THEN "StoreFailure" ELSE "",
                NoText, JsUndefined, <<>>, puts, <<>>, "none")

\* AssetExists: the value of  assetJSON && assetJSON.length > 0
ExistsValueMutNeverExists(assetJSON) == JsBool(FALSE)

ExistsValueMutAlwaysExists(assetJSON) == JsBool(TRUE)

ExistsValue(assetJSON) ==
    IF assetJSON.t = "undefined" THEN JsUndefined
    ELSE JsBool(Len(assetJSON.bytes) > 0)

\* AssetExists(ctx, id): stub call 1 is getState
AssetExists(w, absent, id, fail) ==
    IF fail = 1 THEN Throw(w, "StoreFailure", <<>>)
    ELSE Outcome(w, "", NoText, ExistsValue(getState(w, id, absent)),
                 <<>>, <<>>, <<>>, "none")

\* CreateAsset(ctx, id, color, size, owner, appraisedValue): stub call 1 is
\* the getState of AssetExists, stub call 2 the putState
CreateAssetMutReturnsArguments(w, absent, id, color, size, owner, appraisedValue, fail) ==
    LET exists == AssetExists(w, absent, id, fail)
        asset == <<Field("ID", JsStr(id)), Field("Color", JsStr(color)),
                   Field("Size", Number(JsStr(size))),
                   Field("Owner", JsStr(owner)),
                   Field("AppraisedValue", Number(JsStr(appraisedValue)))>>
        given == <<Field("ID", JsStr(id)), Field("Color", JsStr(color)),
                   Field("Size", JsStr(size)), Field("Owner", JsStr(owner)),
                   Field("AppraisedValue", JsStr(appraisedValue))>>
    IN  IF exists.err # "" THEN exists
        ELSE IF Truthy(exists.retVal) THEN Throw(w, "AlreadyExists", <<>>)
        ELSE IF fail = 2 THEN Throw(w, "StoreFailure", <<>>)
        ELSE Outcome(putState(w, id, stringify(sortKeysRecursive(asset))),
                     "", JSONstringify(given), JsUndefined, <<>>,
                     <<id>>, <<>>, "none")

CreateAssetMutStoresUnsorted(w, absent, id, color, size, owner, appraisedValue, fail) ==
    LET exists == AssetExists(w, absent, id, fail)
        asset == <<Field("ID", JsStr(id)), Field("Color", JsStr(color)),
                   Field("Size", Number(JsStr(size))),
                   Field("Owner", JsStr(owner)),
                   Field("AppraisedValue", Number(JsStr(appraisedValue)))>>
    IN  IF exists.err # "" THEN exists
        ELSE IF Truthy(exists.retVal) THEN Throw(w, "AlreadyExists", <<>>)
        ELSE IF fail = 2 THEN Throw(w, "StoreFailure", <<>>)
        ELSE Outcome(putState(w, id, JSONstringify(asset)),
                     "", JSONstringify(asset), JsUndefined, <<>>,
                     <<id>>, <<>>, "none")

CreateAsset(w, absent, id, color, size, owner, appraisedValue, fail) ==
    LET exists == AssetExists(w, absent, id, fail)
        asset == <<Field("ID", JsStr(id)), Field("Color", JsStr(color)),
                   Field("Size", Number(JsStr(size))),
                   Field("Owner", JsStr(owner)),
                   Field("AppraisedValue", Number(JsStr(appraisedValue)))>>
    IN  IF exists.err # "" THEN exists
        ELSE IF Truthy(exists.retVal) THEN Throw(w, "AlreadyExists", <<>>)
        ELSE IF fail = 2 THEN Throw(w, "StoreFailure", <<>>)
        ELSE Outcome(putState(w, id, stringify(sortKeysRecursive(asset))),
                     "", JSONstringify(asset), JsUndefined, <<>>,
                     <<id>>, <<>>, "none")

\* ReadAsset(ctx, id): stub call 1 is getState
ReadAssetMutDropsDocType(w, absent, id, fail) ==
    LET assetJSON == getState(w, id, absent)
    IN  IF fail = 1 THEN Throw(w, "StoreFailure", <<>>)
        ELSE IF assetJSON.t = "undefined" \/ Len(assetJSON.bytes) = 0
        THEN Throw(w, "NotFound", <<>>)
        ELSE Outcome(w, "", SelectSeq(assetJSON.bytes,
                                      LAMBDA m : m.k # "docType"),
                     JsUndefined, <<>>, <<>>, <<>>, "none")

ReadAsset(w, absent, id, fail) ==
    LET assetJSON == getState(w, id, absent)
    IN  IF fail = 1 THEN Throw(w, "StoreFailure", <<>>)
        ELSE IF assetJSON.t = "undefined" \/ Len(assetJSON.bytes) = 0
        THEN Throw(w, "NotFound", <<>>)
        ELSE Outcome(w, "", assetJSON.bytes, JsUndefined, <<>>,
                     <<>>, <<>>, "none")

\* UpdateAsset(ctx, id, color, size, owner, appraisedValue): stub call 1 is
\* the getState of AssetExists, stub call 2 the putState
UpdateAssetMutUnchecked(w, absent, id, color, size, owner, appraisedValue, fail) ==
    LET updatedAsset == <<Field("ID", JsStr(id)), Field("Color", JsStr(color)),
                          Field("Size", JsStr(size)),
                          Field("Owner", JsStr(owner)),
                          Field("AppraisedValue", JsStr(appraisedValue))>>
    IN  IF fail \in {1, 2} THEN Throw(w, "StoreFailure", <<>>)
        ELSE Outcome(putState(w, id, stringify(sortKeysRecursive(updatedAsset))),
                     "", NoText, JsUndefined, <<>>, <<id>>, <<>>, "none")

UpdateAssetMutCoerces(w, absent, id, color, size, owner, appraisedValue, fail) ==
    LET exists == AssetExists(w, absent, id, fail)
        updatedAsset == <<Field("ID", JsStr(id)), Field("Color", JsStr(color)),
                          Field("Size", Number(JsStr(size))),
                          Field("Owner", JsStr(owner)),
                          Field("AppraisedValue", Number(JsStr(appraisedValue)))>>
    IN  IF exists.err # "" THEN exists
        ELSE IF ~Truthy(exists.retVal) THEN Throw(w, "NotFound", <<>>)
        ELSE IF fail = 2 THEN Throw(w, "StoreFailure", <<>>)
        ELSE Outcome(putState(w, id, stringify(sortKeysRecursive(updatedAsset))),
                     "", NoText, JsUndefined, <<>>, <<id>>, <<>>, "none")

UpdateAsset(w, absent, id, color, size, owner, appraisedValue, fail) ==
    LET exists == AssetExists(w, absent, id, fail)
        updatedAsset == <<Field("ID", JsStr(id)), Field("Color", JsStr(color)),
                          Field("Size", JsStr(size)),
                          Field("Owner", JsStr(owner)),
                          Field("AppraisedValue", JsStr(appraisedValue))>>
    IN  IF exists.err # "" THEN exists
        ELSE IF ~Truthy(exists.retVal) THEN Throw(w, "NotFound", <<>>)
        ELSE IF fail = 2 THEN Throw(w, "StoreFailure", <<>>)
        ELSE Outcome(putState(w, id, stringify(sortKeysRecursive(updatedAsset))),
                     "", NoText, JsUndefined, <<>>, <<id>>, <<>>, "none")

\* DeleteAsset(ctx, id): stub call 1 is the getState of AssetExists, stub
\* call 2 the deleteState
DeleteAssetMutWipesAll(w, absent, id, fail) ==
    LET exists == AssetExists(w, absent, id, fail)
    IN  IF exists.err # "" THEN exists
        ELSE IF ~Truthy(exists.retVal) THEN Throw(w, "NotFound", <<>>)
        ELSE IF fail = 2 THEN Throw(w, "StoreFailure", <<>>)
        ELSE Outcome([k \in DOMAIN w |-> NoBytes], "", NoText, JsUndefined,
                     <<>>, <<>>, <<id>>, "none")

DeleteAsset(w, absent, id, fail) ==
    LET exists == AssetExists(w, absent, id, fail)
    IN  IF exists.err # "" THEN exists
        ELSE IF ~Truthy(exists.retVal) THEN Throw(w, "NotFound", <<>>)
        ELSE IF fail = 2 THEN Throw(w, "StoreFailure", <<>>)
        ELSE Outcome(deleteState(w, id), "", NoText, JsUndefined, <<>>,
                     <<>>, <<id>>, "none")

\* TransferAsset(ctx, id, newOwner): stub call 1 is the getState of ReadAsset,
\* stub call 2 the putState
TransferAssetMutReturnsNewOwner(w, absent, id, newOwner, fail) ==
    LET read == ReadAsset(w, absent, id, fail)
        asset == SetField(JSONparse(read.retText), "Owner", JsStr(newOwner))
    IN  IF read.err # "" THEN read
        ELSE IF fail = 2 THEN Throw(w, "StoreFailure", <<>>)
        ELSE Outcome(putState(w, id, stringify(sortKeysRecursive(asset))),
                     "", NoText, GetField(asset, "Owner"), <<>>,
                     <<id>>, <<>>, "none")

TransferAssetMutRebuilds(w, absent, id, newOwner, fail) ==
    LET read == ReadAsset(w, absent, id, fail)
        parsed == JSONparse(read.retText)
        oldOwner == GetField(parsed, "Owner")
        asset == <<Field("ID", GetField(parsed, "ID")),
                   Field("Color", GetField(parsed, "Color")),
                   Field("Size", GetField(parsed, "Size")),
                   Field("Owner", JsStr(newOwner)),
                   Field("AppraisedValue", GetField(parsed, "AppraisedValue"))>>
    IN  IF read.err # "" THEN read
        ELSE IF fail = 2 THEN Throw(w, "StoreFailure", <<>>)
        ELSE Outcome(putState(w, id, stringify(sortKeysRecursive(asset))),
                     "", NoText, oldOwner, <<>>, <<id>>, <<>>, "none")

TransferAsset(w, absent, id, newOwner, fail) ==
    LET read == ReadAsset(w, absent, id, fail)
        parsed == JSONparse(read.retText)
        oldOwner == GetField(parsed, "Owner")
        asset == SetField(parsed, "Owner", JsStr(newOwner))
    IN  IF read.err # "" THEN read
        ELSE IF ~Decodable(read.retText) THEN Throw(w, "SyntaxError", <<>>)
        ELSE IF fail = 2 THEN Throw(w, "StoreFailure", <<>>)
        ELSE Outcome(putState(w, id, stringify(sortKeysRecursive(asset))),
                     "", NoText, oldOwner, <<>>, <<id>>, <<>>, "none")

\* GetAllAssets(ctx): stub call 1 is getStateByRange, stub call 1 + j is the
\* j-th iterator.next(); the iterator is never closed
GetAllAssetsMutSkipsFirst(w, fail) ==
    LET scanned == getStateByRange(w)
        allResults == [j \in 1..(Len(scanned) - 1) |->
                         JSONstringify(JSONparse(w[scanned[j + 1]]))]
    IN  IF fail = 1 THEN Throw(w, "StoreFailure", <<>>)
        ELSE IF fail \in 2..(Len(scanned) + 2)
        THEN Outcome(w, "StoreFailure", NoText, JsUndefined, <<>>,
                     <<>>, <<>>, "open")
        ELSE Outcome(w, "", NoText, JsUndefined, allResults,
                     <<>>, <<>>, "open")

GetAllAssetsMutNoCatch(w, fail) ==
    LET scanned == getStateByRange(w)
        allResults == [j \in 1..Len(scanned) |->
                         JSONstringify(JSONparse(w[scanned[j]]))]
    IN  IF fail = 1 THEN Throw(w, "StoreFailure", <<>>)
        ELSE IF fail \in 2..(Len(scanned) + 2)
        THEN Outcome(w, "StoreFailure", NoText, JsUndefined, <<>>,
                     <<>>, <<>>, "open")
        ELSE IF \E j \in 1..Len(scanned) : ~Decodable(w[scanned[j]])
        THEN Outcome(w, "SyntaxError", NoText, JsUndefined, <<>>,
                     <<>>, <<>>, "open")
        ELSE Outcome(w, "", NoText, JsUndefined, allResults,
                     <<>>, <<>>, "open")

\* The entry pushed for one scanned value: the parsed record, or the text
\* itself when JSON.parse throws; JSON.stringify then writes it
ScannedRecord(strValue) ==
    IF Decodable(strValue) THEN JSONstringify(JSONparse(strValue))
    ELSE QuotedText(strValue)

GetAllAssets(w, fail) ==
    LET scanned == getStateByRange(w)
        allResults == [j \in 1..Len(scanned) |-> ScannedRecord(w[scanned[j]])]
    IN  IF fail = 1 THEN Throw(w, "StoreFailure", <<>>)
        ELSE IF fail \in 2..(Len(scanned) + 2)
        THEN Outcome(w, "StoreFailure", NoText, JsUndefined, <<>>,
                     <<>>, <<>>, "open")
        ELSE Outcome(w, "", NoText, JsUndefined, allResults,
                     <<>>, <<>>, "open")

(***************************************************************************)
(* The state machine: one contract invocation per step.  `pre` is the      *)
(* world state before the last invocation, `last` the invocation and its   *)
(* outcome, `deleted` the keys deleted and not written since, `written`    *)
(* for every key the operation that built the record last put under it (a  *)
(* transfer puts the record it read) and the text put.                     *)
(***************************************************************************)
Range(seq) == {seq[i] : i \in 1..Len(seq)}

NoArgs == [id |-> "", color |-> "", size |-> "", owner |-> "",
           appraisedValue |-> "", newOwner |-> ""]

\* What an invocation hands back to its caller: its outcome without the
\* world state, which is in `world`
Returned(out) ==
    [err |-> out.err, retText |-> out.retText, retVal |-> out.retVal,
     retList |-> out.retList, puts |-> out.puts, dels |-> out.dels,
     iter |-> out.iter]

NotWritten == [origin |-> "", text |-> NoBytes]

\* The record of the last put of key k after an invocation of op
WrittenBy(op, out, k) ==
    IF k \in Range(out.puts)
    THEN [origin |-> IF op = "TransferAsset" THEN written[k].origin ELSE op,
          text |-> out.world[k]]
    ELSE IF k \in Range(out.dels) THEN NotWritten
    ELSE written[k]

Invoke(op, args, fail, outcome) ==
    LET out == outcome
    IN  /\ world' = out.world
        /\ pre' = world
        /\ last' = [op |-> op, args |-> args, fail |-> fail,
                    out |-> Returned(out)]
        /\ deleted' = (deleted \ Range(out.puts)) \cup Range(out.dels)
        /\ written' = [k \in Keys |-> WrittenBy(op, out, k)]
        /\ UNCHANGED <<absentAs, encVars, calls>>

InitContract ==
    /\ world = [k \in Keys |-> NoBytes]
    /\ absentAs \in {"empty", "undefined"}
    /\ pre = world
    /\ deleted = {}
    /\ written = [k \in Keys |-> NotWritten]
    /\ last = [op |-> "none", args |-> NoArgs, fail |-> 0,
               out |-> Returned(Throw(world, "", <<>>))]

InitEncoder ==
    /\ encA = <<>>
    /\ encB = <<>>
    /\ encOut = <<>>

\* The invocations in progress: none
Callers == {"c1", "c2"}

NoCall == [pc |-> "idle", op |-> "", args |-> NoArgs, saw |-> NoBytes,
           over |-> NoBytes, err |-> ""]

InitCalls == calls = [c \in Callers |-> NoCall]

Init == InitContract /\ InitEncoder /\ InitCalls

DoInitLedger ==
    \E fail \in Failures(Len(assets)) :
        Invoke("InitLedger", NoArgs, fail, InitLedger(world, fail))

DoCreateAsset ==
    \E id \in Ids, color \in Colors, size \in Sizes, owner \in Owners,
       appraisedValue \in AppraisedValues, fail \in Failures(2) :
        Invoke("CreateAsset",
               [NoArgs EXCEPT !.id = id, !.color = color, !.size = size,
                              !.owner = owner,
                              !.appraisedValue = appraisedValue],
               fail,
               CreateAsset(world, absentAs, id, color, size, owner,
                           appraisedValue, fail))

DoReadAsset ==
    \E id \in Ids, fail \in Failures(1) :
        Invoke("ReadAsset", [NoArgs EXCEPT !.id = id], fail,
               ReadAsset(world, absentAs, id, fail))

DoUpdateAsset ==
    \E id \in Ids, color \in Colors, size \in UpdateSizes, owner \in Owners,
       appraisedValue \in AppraisedValues, fail \in Failures(2) :
        Invoke("UpdateAsset",
               [NoArgs EXCEPT !.id = id, !.color = color, !.size = size,
                              !.owner = owner,
                              !.appraisedValue = appraisedValue],
               fail,
               UpdateAsset(world, absentAs, id, color, size, owner,
                           appraisedValue, fail))

DoDeleteAsset ==
    \E id \in Ids, fail \in Failures(2) :
        Invoke("DeleteAsset", [NoArgs EXCEPT !.id = id], fail,
               DeleteAsset(world, absentAs, id, fail))

DoAssetExists ==
    \E id \in Ids, fail \in Failures(1) :
        Invoke("AssetExists", [NoArgs EXCEPT !.id = id], fail,
               AssetExists(world, absentAs, id, fail))

DoTransferAsset ==
    \E id \in Ids, newOwner \in NewOwners, fail \in Failures(2) :
        Invoke("TransferAsset",
               [NoArgs EXCEPT !.id = id, !.newOwner = newOwner], fail,
               TransferAsset(world, absentAs, id, newOwner, fail))

DoGetAllAssets ==
    \E fail \in Failures(Len(getStateByRange(world)) + 2) :
        Invoke("GetAllAssets", NoArgs, fail, GetAllAssets(world, fail))

Next ==
    \/ DoInitLedger
    \/ DoCreateAsset
    \/ DoReadAsset
    \/ DoUpdateAsset
    \/ DoDeleteAsset
    \/ DoAssetExists
    \/ DoTransferAsset
    \/ DoGetAllAssets

Spec == Init /\ [][Next]_vars

(***************************************************************************)
(* A world state inherited from an earlier version of the chaincode: a key *)
(* holds a value that is no JSON text.  The contract runs on it as above.  *)
(***************************************************************************)
LegacyKey == "asset25"

LegacyValue == RawText("not json")

InitLegacy ==
    /\ world = [k \in Keys |-> IF k = LegacyKey THEN LegacyValue ELSE NoBytes]
    /\ absentAs \in {"empty", "undefined"}
    /\ pre = world
    /\ deleted = {}
    /\ written = [k \in Keys |->
                    IF k = LegacyKey
                    THEN [origin |-> "legacy", text |-> LegacyValue]
                    ELSE NotWritten]
    /\ last = [op |-> "none", args |-> NoArgs, fail |-> 0,
               out |-> Returned(Throw(world, "", <<>>))]
    /\ InitEncoder
    /\ InitCalls

SpecLegacy == InitLegacy /\ [][Next]_vars

(***************************************************************************)
(* The encoder on its own: two records are built field by field, each in   *)
(* its own order, and encoded as every put encodes its record.             *)
(***************************************************************************)
\* The record the fields are taken from: asset2 as InitLedger tags it
EncSource == SetField(assets[2], "docType", JsStr("asset"))

EncNames == <<"docType", "Owner", "ID", "Size", "Color", "AppraisedValue">>

EncFieldNames ==
    {EncNames[i] : i \in {j \in 1..Len(EncNames) : j <= MaxEncFields}}

\* asset.k = v on a record under construction
AddFieldA ==
    /\ encOut = <<>>
    /\ \E k \in EncFieldNames :
        /\ ~HasField(encA, k)
        /\ encA' = SetField(encA, k, GetField(EncSource, k))
    /\ UNCHANGED <<contractVars, calls, encB, encOut>>

AddFieldB ==
    /\ encOut = <<>>
    /\ \E k \in EncFieldNames :
        /\ ~HasField(encB, k)
        /\ encB' = SetField(encB, k, GetField(EncSource, k))
    /\ UNCHANGED <<contractVars, calls, encA, encOut>>

\* Buffer.from(stringify(sortKeysRecursive(asset))) of both records, once
\* they hold the same fields
Encode ==
    /\ encOut = <<>>
    /\ encA # <<>>
    /\ {encA[i] : i \in 1..Len(encA)} = {encB[i] : i \in 1..Len(encB)}
    /\ encOut' = <<stringify(sortKeysRecursive(encA)),
                   stringify(sortKeysRecursive(encB))>>
    /\ UNCHANGED <<contractVars, calls, encA, encB>>

InitEncode == InitContract /\ absentAs = "empty" /\ InitEncoder /\ InitCalls

NextEncode == AddFieldA \/ AddFieldB \/ Encode

SpecEncode == InitEncode /\ [][NextEncode]_vars

(***************************************************************************)
(* Invocations in progress at the same time.  An async operation runs up   *)
(* to its next await of a stub call and goes on when the call resolves;    *)
(* between the two, other invocations run.  Each of CreateAsset,           *)
(* UpdateAsset, DeleteAsset and TransferAsset awaits getState, decides,    *)
(* and awaits putState or deleteState.  `saw` is the value its getState    *)
(* answered with, `over` the value under the key when its write arrived.   *)
(***************************************************************************)
ConcIds == {"a1"}

ConcOps == {"CreateAsset", "UpdateAsset", "DeleteAsset", "TransferAsset"}

ConcArgs(id) ==
    [NoArgs EXCEPT !.id = id, !.color = "blue", !.size = "5",
                   !.owner = "Brad", !.appraisedValue = "300",
                   !.newOwner = "Carol"]

\* The operation op run to its end on the world state w
RunOn(op, w, args, fail) ==
    CASE op = "CreateAsset" ->
            CreateAsset(w, absentAs, args.id, args.color, args.size,
                        args.owner, args.appraisedValue, fail)
      [] op = "UpdateAsset" ->
            UpdateAsset(w, absentAs, args.id, args.color, args.size,
                        args.owner, args.appraisedValue, fail)
      [] op = "DeleteAsset" -> DeleteAsset(w, absentAs, args.id, fail)
      [] op = "TransferAsset" ->
            TransferAsset(w, absentAs, args.id, args.newOwner, fail)

\* An invocation arrives and runs up to its await of getState
Call(c) ==
    /\ calls[c].pc = "idle"
    /\ \E op \in ConcOps, id \in ConcIds :
        calls' = [calls EXCEPT ![c] = [NoCall EXCEPT !.pc = "getState",
                                                     !.op = op,
                                                     !.args = ConcArgs(id)]]
    /\ UNCHANGED <<contractVars, encVars>>

\* getState resolves or rejects (stub call 1); the operation throws, or runs
\* up to its await of putState or deleteState
GetStateSettles(c) ==
    /\ calls[c].pc = "getState"
    /\ \E fail \in Failures(1) :
        LET out == RunOn(calls[c].op, world, calls[c].args, fail)
        IN  calls' = [calls EXCEPT ![c].pc = IF out.err = "" THEN "write"
                                             ELSE "done",
                                   ![c].err = out.err,
                                   ![c].saw = world[calls[c].args.id]]
    /\ UNCHANGED <<contractVars, encVars>>

\* putState or deleteState resolves or rejects (stub call 2): the operation
\* decided on the value its getState answered with, and what it puts or
\* deletes reaches the store as it is now
WriteSettles(c) ==
    /\ calls[c].pc = "write"
    /\ \E fail \in Failures(2) \ {1} :
        LET id == calls[c].args.id
            view == [world EXCEPT ![id] = calls[c].saw]
            out == RunOn(calls[c].op, view, calls[c].args, fail)
        IN  /\ world' = [world EXCEPT ![id] = out.world[id]]
            /\ calls' = [calls EXCEPT ![c].pc = "done",
                                      ![c].err = out.err,
                                      ![c].over = world[id]]
    /\ UNCHANGED <<absentAs, pre, last, deleted, written, encVars>>

\* The caller has its answer
Answer(c) ==
    /\ calls[c].pc = "done"
    /\ calls' = [calls EXCEPT ![c] = NoCall]
    /\ UNCHANGED <<contractVars, encVars>>

NextConcurrent ==
    \E c \in Callers :
        \/ Call(c)
        \/ GetStateSettles(c)
        \/ WriteSettles(c)
        \/ Answer(c)

SpecConcurrent == Init /\ [][NextConcurrent]_vars

TypeOK ==
    /\ DOMAIN world = Keys
    /\ absentAs \in {"empty", "undefined"}
    /\ deleted \subseteq Keys

(***************************************************************************)
(* Properties                                                              *)
(***************************************************************************)
Members(text) == {text[i] : i \in 1..Len(text)}

\* The member of a JSON text written under name k
MemberOf(text, k) == CHOOSE m \in Members(text) : m.k = k

HasMember(text, k) == \E m \in Members(text) : m.k = k

Succeeded == last.out.err = ""

NoWrite == last.out.puts = <<>> /\ last.out.dels = <<>> /\ world = pre

\* C1: CreateAsset on a Present key, its existence check answered by the
\* store, fails with AlreadyExists and writes nothing: the stored value is
\* the one stored before the call, whatever the arguments.
CreateOnPresentRejected ==
    (last.op = "CreateAsset" /\ Present(pre, last.args.id) /\ last.fail # 1)
        => /\ last.out.err = "AlreadyExists"
           /\ NoWrite
           /\ world[last.args.id] = pre[last.args.id]

\* A duplicate create carrying a size other than the stored one was rejected
CreateOnPresentSeen ==
    /\ last.op = "CreateAsset"
    /\ Present(pre, last.args.id)
    /\ last.fail # 1
    /\ last.args.size = "abc"
    /\ MemberOf(pre[last.args.id], "Size").txt = "5"
    /\ last.out.err = "AlreadyExists"

\* C2: ReadAsset, UpdateAsset, DeleteAsset and TransferAsset on an Absent
\* key, the store answering the read, fail with NotFound, put and delete
\* nothing, and leave the key Absent.
AbsentKeyNotFound ==
    (/\ last.op \in {"ReadAsset", "UpdateAsset", "DeleteAsset", "TransferAsset"}
     /\ ~Present(pre, last.args.id)
     /\ last.fail # 1)
        => /\ last.out.err = "NotFound"
           /\ NoWrite
           /\ ~Present(world, last.args.id)

AbsentKeyOps(ops) ==
    /\ last.op \in ops
    /\ ~Present(pre, last.args.id)
    /\ last.fail # 1
    /\ last.out.err = "NotFound"

\* An update of a key that was deleted before failed with NotFound
AbsentKeySeen ==
    AbsentKeyOps({"UpdateAsset"}) /\ last.args.id \in deleted

\* What ReadAsset(id) returns in the current state, parsed
ReadBack(id) == JSONparse(ReadAsset(world, absentAs, id, 0).retText)

FieldSet(obj) == {obj[i] : i \in 1..Len(obj)}

\* Strings that are decimal numerals, and the numbers they denote
Numerals == {"5", "300"}

\* C3 as stated: after a successful CreateAsset, ReadAsset returns exactly
\* ID, Color, Size as a number, Owner, AppraisedValue as a number, for every
\* size and appraisedValue.
CreateReadRoundTripAnySize ==
    (last.op = "CreateAsset" /\ Succeeded)
        => LET a == last.args
           IN  /\ ReadAsset(world, absentAs, a.id, 0).err = ""
               /\ FieldSet(ReadBack(a.id))
                    = {Field("ID", JsStr(a.id)), Field("Color", JsStr(a.color)),
                       Field("Size", Number(JsStr(a.size))),
                       Field("Owner", JsStr(a.owner)),
                       Field("AppraisedValue",
                             Number(JsStr(a.appraisedValue)))}
               /\ Len(ReadBack(a.id)) = 5

\* C3, amended: after a successful CreateAsset, ReadAsset returns exactly the
\* fields ID, Color, Size, Owner, AppraisedValue (no docType) with ID, Color
\* and Owner as passed; Size and AppraisedValue are the passed values as
\* numbers when they are numerals, and null when they are not.
CreateReadRoundTrip ==
    (last.op = "CreateAsset" /\ Succeeded)
        => LET a == last.args
               AsStored(x) == IF x \in Numerals THEN JsNum(TextNum(x))
                              ELSE JsNull
           IN  /\ ReadAsset(world, absentAs, a.id, 0).err = ""
               /\ FieldSet(ReadBack(a.id))
                    = {Field("ID", JsStr(a.id)), Field("Color", JsStr(a.color)),
                       Field("Size", AsStored(a.size)),
                       Field("Owner", JsStr(a.owner)),
                       Field("AppraisedValue", AsStored(a.appraisedValue))}
               /\ Len(ReadBack(a.id)) = 5

\* A create with a numeral size succeeded on a key that was Absent
CreateReadSeen ==
    /\ last.op = "CreateAsset"
    /\ Succeeded
    /\ ~Present(pre, last.args.id)
    /\ last.args.size = "5"
    /\ GetField(ReadBack(last.args.id), "Size") = JsNum(5)

\* C4: a successful TransferAsset returns the Owner stored before the call,
\* and a ReadAsset issued next shows Owner = newOwner.
TransferReturnsPriorOwner ==
    (last.op = "TransferAsset" /\ Succeeded)
        => /\ Present(pre, last.args.id)
           /\ last.out.retVal = JsStr(MemberOf(pre[last.args.id], "Owner").txt)
           /\ GetField(ReadBack(last.args.id), "Owner")
                  = JsStr(last.args.newOwner)

\* A transfer of an asset that an earlier transfer had given to Carol
TransferSeen ==
    /\ last.op = "TransferAsset"
    /\ Succeeded
    /\ MemberOf(pre[last.args.id], "Owner").txt = "Carol"
    /\ last.args.newOwner = "Brad"
    /\ last.out.retVal = JsStr("Carol")

\* C5: a key deleted and not written since is observed as absent:
\* AssetExists returns false and ReadAsset fails with NotFound.
DeletedNotObservable ==
    /\ (/\ last.op = "AssetExists"
        /\ last.args.id \in deleted
        /\ last.fail = 0) => last.out.retVal = JsBool(FALSE)
    /\ (/\ last.op = "ReadAsset"
        /\ last.args.id \in deleted
        /\ last.fail = 0) => last.out.err = "NotFound"

\* The keys Present in a world state, and the position of one of them in
\* ascending key order
PresentKeys(w) == {k \in Keys : Present(w, k)}

KeyRank(w, k) == 1 + Cardinality({x \in PresentKeys(w) : StrLess(x, k)})

\* A listing holds one entry per Present key of w, in ascending key order,
\* each entry the record stored under its key
ListsWorld(list, w) ==
    /\ Len(list) = Cardinality(PresentKeys(w))
    /\ \A k \in PresentKeys(w) : list[KeyRank(w, k)] = w[k]

\* A listing is the six InitLedger records asset1..asset6, each with docType
SixLedgerRecords(list) ==
    /\ Len(list) = 6
    /\ \A i \in 1..6 :
        /\ MemberOf(list[i], "ID") = Member("ID", TRUE, AssetKeys[i])
        /\ HasMember(list[i], "docType")
        /\ MemberOf(list[i], "docType") = Member("docType", TRUE, "asset")

\* C6 as stated: GetAllAssets returns one entry per Present key in ascending
\* key order, each the stored record; and after InitLedger it returns exactly
\* the 6 records asset1..asset6, each with docType "asset".
GetAllAssetsSixAfterInit ==
    /\ (last.op = "GetAllAssets" /\ Succeeded)
           => ListsWorld(last.out.retList, pre)
    /\ (last.op = "InitLedger" /\ Succeeded)
           => SixLedgerRecords(GetAllAssets(world, 0).retList)

\* C6, amended: GetAllAssets returns one entry per Present key in ascending
\* key order, each the stored record; after a successful InitLedger that
\* listing holds the records asset1..asset6 in that order, each with docType
\* "asset", and holds exactly these 6 when no key outside asset1..asset6 is
\* Present.
GetAllAssetsListsWorld ==
    /\ (last.op = "GetAllAssets" /\ Succeeded)
           => ListsWorld(last.out.retList, pre)
    /\ (last.op = "InitLedger" /\ Succeeded)
           => LET list == GetAllAssets(world, 0).retList
                  ledger == SelectSeq(list, LAMBDA r :
                                \E i \in 1..6 : MemberOf(r, "ID").txt = AssetKeys[i])
              IN  /\ SixLedgerRecords(ledger)
                  /\ PresentKeys(world) \subseteq Range(AssetKeys)
                        => SixLedgerRecords(list)

\* GetAllAssets listed a world state holding a created key before the
\* InitLedger keys
GetAllAssetsSeen ==
    /\ last.op = "GetAllAssets"
    /\ Succeeded
    /\ Len(last.out.retList) = 7
    /\ MemberOf(last.out.retList[1], "ID").txt = "a1"
    /\ MemberOf(last.out.retList[7], "ID").txt = "asset6"

\* C7: a key becomes Present only by a successful CreateAsset of it or by
\* InitLedger, becomes Absent only by a successful DeleteAsset of it, and
\* stays Present over a successful UpdateAsset or TransferAsset.
KeyStateMachine ==
    /\ \A k \in Keys :
        /\ (~Present(pre, k) /\ Present(world, k))
              => \/ last.op = "CreateAsset" /\ last.args.id = k /\ Succeeded
                 \/ last.op = "InitLedger" /\ k \in Range(AssetKeys)
        /\ (Present(pre, k) /\ ~Present(world, k))
              => last.op = "DeleteAsset" /\ last.args.id = k /\ Succeeded
    /\ (last.op \in {"UpdateAsset", "TransferAsset"} /\ Succeeded)
          => Present(pre, last.args.id) /\ Present(world, last.args.id)

\* A successful delete took one key from Present to Absent while another
\* key stayed Present
KeyStateMachineSeen ==
    /\ last.op = "DeleteAsset"
    /\ Succeeded
    /\ Present(pre, last.args.id)
    /\ ~Present(world, last.args.id)
    /\ \E k \in Keys \ {last.args.id} : Present(pre, k) /\ Present(world, k)

\* C8: GetAllAssets has released its range-scan iterator whenever it has
\* returned or failed.
ScanHandleReleased ==
    last.op = "GetAllAssets" => last.out.iter # "open"

\* The keys whose value the last invocation changed
ChangedKeys == {k \in Keys : world[k] # pre[k]}

\* C9: an invocation that fails with StoreFailure has changed none of the
\* keys it writes or all of them.
NoPartialEffect ==
    last.out.err = "StoreFailure"
        => \/ ChangedKeys = {}
           \/ /\ last.op = "InitLedger"
              /\ ChangedKeys = Range(AssetKeys)

\* The record InitLedger writes for assets[i], as a set of members
LedgerMembers(i) ==
    LET a == <<<<"blue", "5", "Tomoko", "300">>, <<"red", "5", "Brad", "400">>,
               <<"green", "10", "Jin Soo", "500">>,
               <<"yellow", "10", "Max", "600">>,
               <<"black", "15", "Adriana", "700">>,
               <<"white", "15", "Michel", "800">>>>[i]
    IN  {Member("ID", TRUE, AssetKeys[i]), Member("Color", TRUE, a[1]),
         Member("Size", FALSE, a[2]), Member("Owner", TRUE, a[3]),
         Member("AppraisedValue", FALSE, a[4]),
         Member("docType", TRUE, "asset")}

\* C10: after a successful InitLedger the keys asset1..asset6 hold the six
\* literal records with docType "asset", whatever they held before, and a
\* second InitLedger leaves the world state as the first left it.
InitLedgerIdempotent ==
    (last.op = "InitLedger" /\ Succeeded)
        => /\ \A i \in 1..6 :
                /\ Members(world[AssetKeys[i]]) = LedgerMembers(i)
                /\ Len(world[AssetKeys[i]]) = 6
           /\ InitLedger(world, 0).err = ""
           /\ InitLedger(world, 0).world = world

\* InitLedger overwrote an asset2 that an update had left without docType,
\* while a created key was Present
InitLedgerSeen ==
    /\ last.op = "InitLedger"
    /\ Succeeded
    /\ Present(pre, "asset2")
    /\ ~HasMember(pre["asset2"], "docType")
    /\ Present(pre, "a1")

\* C13: AssetExists returns the boolean true when the key holds a non-empty
\* value and the boolean false otherwise, and the other operations pass
\* their presence test exactly when it is true.
AssetExistsIsBoolean ==
    /\ (last.op = "AssetExists" /\ last.fail = 0)
          => last.out.retVal = JsBool(Present(pre, last.args.id))
    /\ (last.op \in {"ReadAsset", "TransferAsset", "UpdateAsset", "DeleteAsset"}
        /\ last.fail # 1)
          => (last.out.err # "NotFound"
                 <=> AssetExists(pre, absentAs, last.args.id, 0).retVal
                        = JsBool(TRUE))
    /\ (last.op = "CreateAsset" /\ last.fail # 1)
          => (last.out.err # "AlreadyExists"
                 <=> AssetExists(pre, absentAs, last.args.id, 0).retVal
                        = JsBool(FALSE))

\* The names of the members of a JSON text, in the order they are written
MemberNames(text) == [i \in 1..Len(text) |-> text[i].k]

\* The field names of an asset in ascending code-point order
CanonicalOrder ==
    <<"AppraisedValue", "Color", "ID", "Owner", "Size", "docType">>

OrderIndex(k) == CHOOSE i \in 1..Len(CanonicalOrder) : CanonicalOrder[i] = k

\* A JSON text is written with its members in ascending order of name
IsCanonical(text) ==
    /\ \A i \in 1..Len(text) : text[i].k \in Range(CanonicalOrder)
    /\ \A i, j \in 1..Len(text) :
          i < j => OrderIndex(text[i].k) < OrderIndex(text[j].k)

\* C14: a successful UpdateAsset leaves under id exactly the fields ID,
\* Color, Size, Owner, AppraisedValue with the values passed, size and
\* appraisedValue as the strings passed, and no field of the prior value.
UpdateReplacesRecord ==
    (last.op = "UpdateAsset" /\ Succeeded)
        => LET a == last.args
           IN  /\ Members(world[a.id])
                    = {Member("ID", TRUE, a.id), Member("Color", TRUE, a.color),
                       Member("Size", TRUE, a.size),
                       Member("Owner", TRUE, a.owner),
                       Member("AppraisedValue", TRUE, a.appraisedValue)}
               /\ Len(world[a.id]) = 5
               /\ ~HasMember(world[a.id], "docType")

\* An update replaced an InitLedger record, whose docType and numeric Size
\* are gone
UpdateReplacesSeen ==
    /\ last.op = "UpdateAsset"
    /\ Succeeded
    /\ HasMember(pre[last.args.id], "docType")
    /\ MemberOf(pre[last.args.id], "Size") = Member("Size", FALSE, "5")
    /\ MemberOf(world[last.args.id], "Size") = Member("Size", TRUE, "5")

\* C15: a successful TransferAsset changes only Owner: every other member
\* of the stored record, docType included, is as before, and the value
\* written is canonically encoded.
TransferChangesOnlyOwner ==
    (last.op = "TransferAsset" /\ Succeeded)
        => LET before == pre[last.args.id]
               after == world[last.args.id]
           IN  /\ {m \in Members(after) : m.k # "Owner"}
                    = {m \in Members(before) : m.k # "Owner"}
               /\ {m \in Members(after) : m.k = "Owner"}
                    = {Member("Owner", TRUE, last.args.newOwner)}
               /\ Len(after) = Cardinality(Members(after))
               /\ IsCanonical(after)

\* A transfer changed the owner of a record holding docType
TransferFrameSeen ==
    /\ last.op = "TransferAsset"
    /\ Succeeded
    /\ HasMember(pre[last.args.id], "docType")
    /\ HasMember(world[last.args.id], "docType")
    /\ MemberOf(pre[last.args.id], "Owner").txt # last.args.newOwner

\* C17 as stated: the text CreateAsset returns is the text it wrote, the one
\* a ReadAsset issued next returns.
CreateReturnsStoredText ==
    (last.op = "CreateAsset" /\ Succeeded)
        => last.out.retText
              = ReadAsset(world, absentAs, last.args.id, 0).retText

\* C17, amended: the text CreateAsset returns holds the same members (names
\* and values) as the text it wrote, the one a ReadAsset issued next returns,
\* written in the order ID, Color, Size, Owner, AppraisedValue.
CreateReturnsStoredRecord ==
    (last.op = "CreateAsset" /\ Succeeded)
        => /\ Members(last.out.retText)
                = Members(ReadAsset(world, absentAs, last.args.id, 0).retText)
           /\ MemberNames(last.out.retText)
                = <<"ID", "Color", "Size", "Owner", "AppraisedValue">>

\* A create returned a text whose non-numeric size is written as null
CreateReturnSeen ==
    /\ last.op = "CreateAsset"
    /\ Succeeded
    /\ last.args.size = "abc"
    /\ MemberOf(last.out.retText, "Size") = Member("Size", FALSE, "null")

\* C19: every stored record holds as ID the key it is stored under, and
\* every stored value is written with its members in ascending order.
StoredRecordsCanonical ==
    \A k \in Keys :
        Present(world, k)
            => /\ HasMember(world[k], "ID")
               /\ MemberOf(world[k], "ID") = Member("ID", TRUE, k)
               /\ IsCanonical(world[k])

\* Created, updated, transferred and initialised records are stored together
StoredRecordsSeen ==
    /\ Present(world, "a1")
    /\ Present(world, "asset2")
    /\ HasMember(world["asset2"], "docType")
    /\ MemberOf(world["asset2"], "Owner").txt = "Carol"
    /\ MemberOf(world["a1"], "Size") = Member("Size", FALSE, "null")
    /\ last.op = "TransferAsset"
    /\ Succeeded

\* C20: CreateAsset, UpdateAsset, DeleteAsset and TransferAsset change no
\* key other than id, whether they succeed or fail, and InitLedger changes
\* no key outside asset1..asset6.
OtherKeysUnchanged ==
    /\ last.op \in {"CreateAsset", "UpdateAsset", "DeleteAsset", "TransferAsset"}
          => ChangedKeys \subseteq {last.args.id}
    /\ last.op = "InitLedger" => ChangedKeys \subseteq Range(AssetKeys)

\* A delete removed its key while other keys were Present
OtherKeysSeen ==
    /\ last.op = "DeleteAsset"
    /\ Succeeded
    /\ ChangedKeys = {last.args.id}
    /\ Cardinality(PresentKeys(world)) >= 2

\* C18: ReadAsset, AssetExists and GetAllAssets leave every key and value
\* unchanged whether they succeed or fail, and a successful ReadAsset
\* returns the text last written under id: with docType when InitLedger
\* built the record (it or a later transfer being the last writer), without
\* it when CreateAsset or UpdateAsset built it.
ObserversArePure ==
    /\ last.op \in {"ReadAsset", "AssetExists", "GetAllAssets"} => NoWrite
    /\ (last.op = "ReadAsset" /\ Succeeded)
          => LET w == written[last.args.id]
             IN  /\ last.out.retText = w.text
                 /\ w.origin = "InitLedger"
                       => /\ HasMember(last.out.retText, "docType")
                          /\ MemberOf(last.out.retText, "docType")
                                = Member("docType", TRUE, "asset")
                 /\ w.origin \in {"CreateAsset", "UpdateAsset"}
                       => ~HasMember(last.out.retText, "docType")

\* A read returned an InitLedger record after a transfer, docType included
ObserversSeen ==
    /\ last.op = "ReadAsset"
    /\ Succeeded
    /\ written[last.args.id].origin = "InitLedger"
    /\ MemberOf(last.out.retText, "Owner").txt = "Carol"

\* C11: two records equal as field-name-to-value mappings, built in any two
\* orders, are encoded to the same text, whose members are the fields of the
\* record in ascending order of name.
EncodingOrderIndependent ==
    encOut # <<>>
        => /\ encOut[1] = encOut[2]
           /\ IsCanonical(encOut[1])
           /\ Len(encOut[1]) = Len(encA)
           /\ MemberNames(encOut[1])
                = SelectSeq(CanonicalOrder, LAMBDA k : HasField(encA, k))
           /\ \A i \in 1..Len(encA) :
                 MemberOf(encOut[1], encA[i].k)
                    = SerializeValue(encA[i].k, encA[i].v)

\* Two records built in opposite orders, docType first in one and last in
\* the other, were encoded
EncodingSeen ==
    /\ encOut # <<>>
    /\ Len(encA) >= 3
    /\ encA[1].k = "docType"
    /\ encB[Len(encB)].k = "docType"
    /\ encA # encB

\* C12: a stored value that cannot be decoded does not abort GetAllAssets:
\* with no store failure it succeeds, the undecodable entry is listed at its
\* key-order position as its raw text, and every other entry is listed
\* decoded.
UndecodableListedRaw ==
    (/\ last.op = "GetAllAssets"
     /\ last.fail = 0
     /\ \E k \in PresentKeys(pre) : ~Decodable(pre[k]))
        => /\ Succeeded
           /\ Len(last.out.retList) = Cardinality(PresentKeys(pre))
           /\ \A k \in PresentKeys(pre) :
                 LET entry == last.out.retList[KeyRank(pre, k)]
                 IN  IF Decodable(pre[k])
                     THEN entry = pre[k]
                     ELSE /\ Len(entry) = 1
                          /\ entry[1].q
                          /\ entry[1].txt = pre[k][1].txt

\* A listing held the raw text between decoded records
UndecodableSeen ==
    /\ last.op = "GetAllAssets"
    /\ Succeeded
    /\ Len(last.out.retList) = 8
    /\ ~Decodable(pre["asset25"])
    /\ last.out.retList[4] = <<Member("", TRUE, "not json")>>
    /\ last.out.retList[3] = pre["asset2"]
    /\ last.out.retList[5] = pre["asset3"]

\* The invocation of c has returned without an error
WroteOk(c) == calls[c].pc = "done" /\ calls[c].err = ""

\* C16: the existence check of an operation and the write that follows it
\* see the same value under the key, also when invocations interleave at
\* the stub calls: two CreateAsset calls in progress together that both
\* found the id Absent do not both succeed, and an UpdateAsset or a
\* TransferAsset does not put under a key removed since its check.
CheckAndWriteSameView ==
    /\ \A c \in Callers : WroteOk(c) => calls[c].over = calls[c].saw
    /\ \A c, d \in Callers :
        (/\ c # d
         /\ WroteOk(c) /\ WroteOk(d)
         /\ calls[c].op = "CreateAsset" /\ calls[d].op = "CreateAsset"
         /\ calls[c].args.id = calls[d].args.id)
        => ~(calls[c].saw = NoBytes /\ calls[d].saw = NoBytes)
    /\ \A c \in Callers :
        WroteOk(c) /\ calls[c].op \in {"UpdateAsset", "TransferAsset"}
        => calls[c].over # NoBytes

====
